---------------------------- MODULE Spec2Model ----------------------------
(***************************************************************************)
(* A model of the chat client of reactnative_chatapp: the chat screen      *)
(* (src/ChatScreen.js), the authentication hook (src/useAuthentication.js),*)
(* the navigation (src/App.js) and the buddy list                          *)
(* (src/SettingsScreen_withstorage.js), over one shared 'chats' feed.      *)
(*                                                                         *)
(* One device is modelled in full; it signs in as any principal.  The      *)
(* other devices run the same code, and act on this one only through the   *)
(* records their onSend appends to the shared feed (PeerSend).             *)
(*                                                                         *)
(* Granularity: JavaScript is single threaded and React flushes the        *)
(* effects of a commit before anything else runs, so one action is one     *)
(* event (a press, a store callback, an auth notification) together with   *)
(* the state updates, the re-render and the effect flush it causes.        *)
(***************************************************************************)
EXTENDS Integers, Sequences, FiniteSets, TLC

VARIABLES
    feed,        \* the 'chats' collection of the store, in append order
    now,         \* the instant `new Date()` returns
    authUser,    \* auth.currentUser.email on this device, or Null
    hookUser,    \* useAuthentication's user state (its email), or Null
    mounted,     \* whether ChatScreen is mounted
    user,        \* ChatScreen state `user`
    receiver,    \* ChatScreen state `receiver`
    isSelfChat,  \* ChatScreen state `isSelfChat`
    messages,    \* ChatScreen state `messages`, the Conversation View
    subs,        \* the live onSnapshot listeners of ChatScreen
    liveMax,     \* most listeners alive at once during the last effect flush
    logged,      \* the console line of the latest step, "none" if it wrote none
    shown,       \* the navigator AppNavigation renders: "auth" or "tabs"
    alert,       \* the alert of the latest sign-in or sign-up attempt, "none" if none
    signUp,      \* the latest press of SignUpScreen's button: its inputs and its request
    themeStored, \* AsyncStorage's value under the key 'theme', or Null
    isDark,      \* ThemeProvider state `isDark`
    themeLoad,   \* loadTheme's getItem in flight: what it will deliver; or "done"
    lastToggle,  \* what the latest toggleTheme chose and whether its write succeeded
    startToggle, \* lastToggle as it was when the app was last started
    sessions,    \* how many times the app was started
    reads,       \* how many times getItem('theme') was called
    storageFailed, \* whether a getItem or setItem was rejected since the app was started
    avatarDocs,  \* the 'avatars' collection of the store, in creation order
    userEmail,   \* SettingsScreen state `userEmail`; Null while it is not mounted
    docRef,      \* SettingsScreen state `docRef`: a position in avatarDocs, or NoRef
    fetching,    \* whether SettingsScreen's fetchAvatar is in flight
    picking,     \* the pickImage in flight: the docRef and userEmail it closed over
    users,       \* ListUsers state `users`: the emails of its rows, in order
    avatar       \* ChatScreen state `avatar`, or NoAvatar

\* the state of the chat screen and the store's feed
chatVars == <<feed, now, mounted, user, receiver, isSelfChat, messages, subs, liveMax>>

\* the state of the theme provider
themeVars == <<themeStored, isDark, themeLoad, lastToggle, startToggle, sessions, reads,
               storageFailed>>

\* the state of the settings screen and the store's avatars
avatarVars == <<avatarDocs, userEmail, docRef, fetching, picking>>

\* what the focus effects of the buddy list and of the chat screen fetched
fetched == <<users, avatar>>

\* what a step of the chat screen leaves alone
aside == <<shown, alert, signUp, themeVars, avatarVars, fetched>>

vars == <<chatVars, authUser, hookUser, logged, aside>>

-----------------------------------------------------------------------------
(* Bounds and universes *)

MaxFeed == 2

MaxTime == 1

MaxAvatarDocs == 3

MaxSessions == 3

Null == "null"

Principals == {"alice", "bob", "carol"}

\* the account this device signs in with
Accounts == {"alice"}

\* the emails of the rows of the buddy list: the avatar record of a principal,
\* or one that was uploaded with an empty email
Buddies == Principals \cup {""}

\* the principals signed in on the other devices, and the receivers they select
Peers == {"bob"}

PeerReceivers == {"alice", "bob"}

\* a text is the sequence of its characters
Hi == <<"h", "i">>

\* the texts the other devices send
Texts == {Hi}

\* what the composer of this device may hold when the send button is pressed:
\* nothing, a blank, a text, a text with blanks around it
Inputs == {<<>>, <<" ">>, Hi, <<" ", "h", "i", " ">>}

\* the composer holds a text
TypedInputs == {Hi}

\* a createdAt value without a toDate method (no convertible timestamp)
NoDate == -1

\* the seen mark of a listener that has not received its first snapshot
NotYet == -1

Time == 0..MaxTime

\* a record written to the feed by another writer, with a createdAt that is no Timestamp
LegacyDoc == [id |-> 1, user |-> "alice", receiver |-> "bob", createdAt |-> NoDate, text |-> Hi]

InitialFeeds == {<<>>, <<LegacyDoc>>}

Range(s) == {s[i] : i \in 1..Len(s)}

Max(a, b) == IF a >= b THEN a ELSE b

-----------------------------------------------------------------------------
(* The snapshot callback of ChatScreen: map, filter, sort *)

\* query(collection(db,'chats'), orderBy('createdAt','desc')): a value that is no
\* Timestamp sorts after every Timestamp ascending, so first descending; ties by id
StoreBefore(a, b) ==
    \/ a.createdAt = NoDate /\ b.createdAt # NoDate
    \/ a.createdAt # NoDate /\ b.createdAt # NoDate /\ a.createdAt > b.createdAt
    \/ a.createdAt = b.createdAt /\ a.id > b.id

SnapshotDocs(f) ==
    [i \in 1..Len(f) |->
        CHOOSE d \in Range(f) : Cardinality({e \in Range(f) : StoreBefore(e, d)}) = i - 1]

\* variant of ToDate: every record takes the instant of the run
AlwaysNow(createdAt, t) == t

\* variant of ToDate: a record without a convertible timestamp takes the epoch
EpochWhenMissing(createdAt, t) == IF createdAt # NoDate THEN createdAt ELSE 0

\* createdAt: doc.data().createdAt?.toDate ? doc.data().createdAt.toDate() : new Date()
ToDate(createdAt, t) == IF createdAt # NoDate THEN createdAt ELSE t

MapDocs(docs, t) ==
    [i \in 1..Len(docs) |-> [docs[i] EXCEPT !.createdAt = ToDate(docs[i].createdAt, t)]]

\* variant of MatchesPair: the receiver of the message is not compared
MatchesSenderOnly(msg, u, r) == msg.user = u \/ msg.user = r

\* (msgUser === user && msgReceiver === receiver) || (msgUser === receiver && msgReceiver === user)
MatchesPair(msg, u, r) ==
    \/ msg.user = u /\ msg.receiver = r
    \/ msg.user = r /\ msg.receiver = u

FilterMessages(all, u, r) ==
    LET keep(msg) == MatchesPair(msg, u, r) IN SelectSeq(all, keep)

\* variant of NewerFirst: the comparator is a.createdAt - b.createdAt
OlderFirst(a, b) == a.createdAt < b.createdAt

\* the comparator (a, b) => b.createdAt - a.createdAt is negative: a goes before b
NewerFirst(a, b) == a.createdAt > b.createdAt

\* variant of SortNewestFirst: the order of the store is trusted, no re-sort
KeepStoreOrder(s) == s

\* filteredMessages.sort(comparator), a stable sort: an entry goes after the
\* entries the comparator puts before it and after the earlier entries it ties with
SortNewestFirst(s) ==
    LET n == Len(s)
        pos(i) == 1 + Cardinality({j \in 1..n : NewerFirst(s[j], s[i])})
                    + Cardinality({j \in 1..(i - 1) :
                                      ~NewerFirst(s[j], s[i]) /\ ~NewerFirst(s[i], s[j])})
    IN  [p \in 1..n |-> s[CHOOSE i \in 1..n : pos(i) = p]]

\* the ids of the entries of a view
Ids(view) == {view[k].id : k \in 1..Len(view)}

\* what the callback hands to setMessages for the snapshot `docs` at instant t
FilterSort(docs, u, r, t) == SortNewestFirst(FilterMessages(MapDocs(docs, t), u, r))

-----------------------------------------------------------------------------
(* The message listener effect of ChatScreen *)

\* variant of BothSet: the effect subscribes whatever is set
AlwaysSubscribe(u, r) == TRUE

\* if (!receiver || !user) return;
BothSet(u, r) == r # Null /\ u # Null

\* variant of ListenerCleanup: unsubscribe() is not called
KeepListeners(old) == old

\* the cleanup of the previous run of the effect: unsubscribe()
ListenerCleanup(old) == {}

\* the body of the effect: onSnapshot(chatQuery, ...) closing over user and receiver
ListenerSubscribe(live, u, r) ==
    IF BothSet(u, r) THEN live \cup {[user |-> u, receiver |-> r, seen |-> NotYet]}
    ELSE live

\* variant of ListenerEffect: the effect returns no cleanup function
EffectWithoutCleanup(old, u, r) == <<old, ListenerSubscribe(old, u, r)>>

\* a flush of the effect after [receiver, user] changed: the listener sets the
\* screen goes through, in order
ListenerEffect(old, u, r) ==
    LET cleaned == ListenerCleanup(old)
    IN  <<cleaned, ListenerSubscribe(cleaned, u, r)>>

PeakLive(steps) == Max(Cardinality(steps[1]), Cardinality(steps[2]))

-----------------------------------------------------------------------------
\* no press of the sign-up button yet
NoSignUp == [email |-> "", password |-> "", confirmPassword |-> "", requested |-> FALSE]

\* the null docRef of SettingsScreen
NoRef == 0

\* the null avatar of ChatScreen
NoAvatar == -1

\* no pickImage is in flight
Idle == [docRef |-> NoRef, email |-> Null]

\* no toggleTheme yet
NoToggle == [dark |-> FALSE, saved |-> FALSE, made |-> FALSE]

Init ==
    /\ feed \in InitialFeeds
    /\ now = 0
    /\ authUser = Null
    /\ hookUser = Null
    /\ mounted = FALSE
    /\ user = Null
    /\ receiver = Null
    /\ isSelfChat = FALSE
    /\ messages = <<>>
    /\ subs = {}
    /\ liveMax = 0
    /\ logged = "none"
    /\ shown = "auth"
    /\ alert = "none"
    /\ signUp = NoSignUp
    /\ themeStored = Null
    /\ isDark = FALSE
    /\ themeLoad = Null
    /\ lastToggle = NoToggle
    /\ startToggle = NoToggle
    /\ sessions = 1
    /\ reads = 1
    /\ storageFailed = FALSE
    /\ avatarDocs = <<>>
    /\ userEmail = Null
    /\ docRef = NoRef
    /\ fetching = FALSE
    /\ picking = Idle
    /\ users = <<>>
    /\ avatar = NoAvatar

\* the main tabs are shown and no sign-in or sign-out is in flight
SignedIn == authUser # Null /\ hookUser = authUser

\* the clock of `new Date()` advances
Tick ==
    /\ now < MaxTime
    /\ now' = now + 1
    /\ logged' = "none"
    /\ UNCHANGED <<feed, authUser, hookUser, mounted, user, receiver, isSelfChat,
                   messages, subs, liveMax>>
    /\ UNCHANGED aside

\* the error.message of a rejected signInWithEmailAndPassword
LoginFailures == {"auth/user-not-found", "auth/wrong-password"}

\* variant of LoginAlert: the alert shows the error of the identity provider
AlertOfCause(cause) == cause

\* Alert.alert("Login Error", "Please check the credentials")
LoginAlert(cause) == "Login Error: Please check the credentials"

\* LoginScreen handleLogin: signInWithEmailAndPassword resolves, or rejects
\* with a cause that is logged and answered with the alert
Login(p) ==
    /\ authUser = Null /\ hookUser = Null
    /\ \/ /\ authUser' = p
          /\ logged' = "The user has successfully logged in"
          /\ alert' = "none"
       \/ /\ \E cause \in LoginFailures :
                 logged' = cause /\ alert' = LoginAlert(cause)
          /\ UNCHANGED authUser
    /\ UNCHANGED <<feed, now, hookUser, mounted, user, receiver, isSelfChat,
                   messages, subs, liveMax>>
    /\ UNCHANGED <<shown, signUp, themeVars, avatarVars, fetched>>

\* the emails and passwords typed into SignUpScreen
SignUpEmails == {"", "alice"}

Passwords == {"", "p", "q"}

\* the truthiness of a string of the form: falsy only when it is empty
Filled(s) == s # ""

\* email && password && confirmPassword && password !== confirmPassword
Mismatch(email, password, confirmPassword) ==
    Filled(email) /\ Filled(password) /\ Filled(confirmPassword) /\ password # confirmPassword

\* the error.message of a rejected createUserWithEmailAndPassword
SignUpFailures == {"email-already-in-use", "auth/network-request-failed"}

\* errorMessage.indexOf("email-already-in-use") != -1 ? "Email already in use." : errorMessage
SignUpAlert(errorMessage) ==
    IF errorMessage = "email-already-in-use" THEN "Email already in use." ELSE errorMessage

\* SignUpScreen handleSignUp: the check of the passwords, then
\* createUserWithEmailAndPassword, which resolves (the account exists and is
\* signed in) or rejects; the identity provider rejects an empty email or password
HandleSignUp(email, password, confirmPassword) ==
    /\ authUser = Null /\ hookUser = Null
    /\ IF Mismatch(email, password, confirmPassword)
       THEN /\ signUp' = [email |-> email, password |-> password,
                          confirmPassword |-> confirmPassword, requested |-> FALSE]
            /\ alert' = "Please provide all required details for SignUp"
            /\ logged' = "none"
            /\ UNCHANGED authUser
       ELSE /\ signUp' = [email |-> email, password |-> password,
                          confirmPassword |-> confirmPassword, requested |-> TRUE]
            /\ \/ /\ Filled(email) /\ Filled(password)
                  /\ authUser' = email
                  /\ alert' = "none"
                  /\ logged' = "none"
               \/ /\ \E errorMessage \in SignUpFailures :
                         alert' = SignUpAlert(errorMessage) /\ logged' = errorMessage
                  /\ UNCHANGED authUser
    /\ UNCHANGED <<chatVars, hookUser, shown, themeVars, avatarVars, fetched>>

\* variant of Navigator: the tabs whatever the user
AlwaysTabs(u) == "tabs"

\* AppNavigation: user ? <Tab.Navigator ...> : <Stack.Navigator ...>
Navigator(u) == IF u # Null THEN "tabs" ELSE "auth"

\* variant of AuthStateChanged: the view of the chat screen outlives the screen
AuthStateChangedKeepingView ==
    /\ hookUser # authUser
    /\ hookUser' = authUser
    /\ logged' = "User details"
    /\ shown' = Navigator(authUser)
    /\ IF authUser = Null
       THEN /\ mounted' = FALSE
            /\ user' = Null
            /\ receiver' = Null
            /\ isSelfChat' = FALSE
            /\ subs' = ListenerCleanup(subs)
            /\ liveMax' = Cardinality(ListenerCleanup(subs))
            /\ userEmail' = Null
            /\ docRef' = NoRef
            /\ fetching' = FALSE
            /\ users' = <<>>
            /\ avatar' = NoAvatar
            /\ UNCHANGED messages
       ELSE UNCHANGED <<mounted, user, receiver, isSelfChat, messages, subs, liveMax,
                        userEmail, docRef, fetching, fetched>>
    /\ UNCHANGED <<feed, now, authUser, alert, signUp, themeVars, avatarDocs, picking>>

\* useAuthentication's onAuthStateChanged callback, and AppNavigation's choice of
\* stack: with no user the tabs, and ChatScreen with them, are unmounted
AuthStateChanged ==
    /\ hookUser # authUser
    /\ hookUser' = authUser
    /\ logged' = "User details"
    /\ shown' = Navigator(authUser)
    /\ IF authUser = Null
       THEN /\ mounted' = FALSE
            /\ user' = Null
            /\ receiver' = Null
            /\ isSelfChat' = FALSE
            /\ messages' = <<>>
            /\ subs' = ListenerCleanup(subs)
            /\ liveMax' = Cardinality(ListenerCleanup(subs))
            /\ userEmail' = Null
            /\ docRef' = NoRef
            /\ fetching' = FALSE
            /\ users' = <<>>
            /\ avatar' = NoAvatar
       ELSE UNCHANGED <<mounted, user, receiver, isSelfChat, messages, subs, liveMax,
                        userEmail, docRef, fetching, fetched>>
    /\ UNCHANGED <<feed, now, authUser, alert, signUp, themeVars, avatarDocs, picking>>

\* the Chat tab is pressed before any buddy was selected: ChatScreen mounts
\* without route params (setUser(auth.currentUser.email), receiver stays null)
OpenChatTab ==
    /\ shown = "tabs" /\ ~mounted
    /\ mounted' = TRUE
    /\ user' = authUser
    /\ LET steps == ListenerEffect(subs, authUser, receiver)
       IN  /\ subs' = steps[2]
           /\ liveMax' = PeakLive(steps)
    /\ logged' = "none"
    /\ UNCHANGED <<feed, now, authUser, hookUser, receiver, isSelfChat, messages>>
    /\ UNCHANGED aside

\* variant of RouteParams: the flag of the route is never set
RouteParamsNeverSelf(r) == [receiver |-> r, isSelfChat |-> FALSE]

\* ListUsers onPress: navigation.navigate('ChatScreen', {receiver, isSelfChat})
RouteParams(r) == [receiver |-> r, isSelfChat |-> (r = authUser)]

\* a buddy is pressed: ChatScreen mounts if it is not, its route.params effect
\* sets receiver and isSelfChat when the receiver of the route is truthy (the
\* email of an avatar record may be empty), and the listener effect runs
\* again when [receiver, user] changed.  messages is not touched.
SelectBuddy(r) ==
    /\ shown = "tabs"
    /\ LET params == RouteParams(r)
           u == IF mounted THEN user ELSE authUser
           selected == IF Filled(params.receiver) THEN params.receiver ELSE receiver
           steps == ListenerEffect(subs, u, selected)
       IN  /\ mounted' = TRUE
           /\ user' = u
           /\ receiver' = selected
           /\ isSelfChat' = IF Filled(params.receiver) THEN params.isSelfChat ELSE isSelfChat
           /\ IF mounted /\ receiver = selected
              THEN UNCHANGED <<subs, liveMax>>
              ELSE /\ subs' = steps[2]
                   /\ liveMax' = PeakLive(steps)
    /\ logged' = "none"
    /\ UNCHANGED <<feed, now, authUser, hookUser, messages>>
    /\ UNCHANGED aside

\* onSignOut: signOut(auth) resolves, or rejects and is logged
SignOut ==
    /\ mounted /\ SignedIn
    /\ \/ /\ authUser' = Null
          /\ logged' = "none"
       \/ /\ logged' = "Error logging out"
          /\ UNCHANGED authUser
    /\ UNCHANGED <<feed, now, hookUser, mounted, user, receiver, isSelfChat,
                   messages, subs, liveMax>>
    /\ UNCHANGED aside

\* variant of SendReady: onSend without its guard
AlwaysReady(u, r) == TRUE

\* if (!receiver || !user) { console.error(...); return; }
SendReady(u, r) == r # Null /\ u # Null

\* variant of NewDoc: sender and receiver change places
NewDocSwapped(text, createdAt) ==
    [id |-> Len(feed) + 1,
     user |-> receiver,
     receiver |-> authUser,
     createdAt |-> IF createdAt # NoDate THEN createdAt ELSE now,
     text |-> text]

\* the record onSend hands to addDoc; messageUser is GiftedChat's user prop,
\* {_id: auth.currentUser.email}; an absent createdAt (NoDate) becomes new Date()
NewDoc(text, createdAt) ==
    [id |-> Len(feed) + 1,
     user |-> authUser,
     receiver |-> receiver,
     createdAt |-> IF createdAt # NoDate THEN createdAt ELSE now,
     text |-> text]

\* variant of OnSend: the sent message is also put on top of the local view
OnSendWithEcho(text, createdAt) ==
    /\ mounted /\ SignedIn
    /\ IF ~SendReady(user, receiver)
       THEN /\ logged' = "Receiver or user not defined"
            /\ UNCHANGED <<feed, messages>>
       ELSE \/ /\ Len(feed) < MaxFeed
               /\ feed' = Append(feed, NewDoc(text, createdAt))
               /\ messages' = <<NewDoc(text, createdAt)>> \o messages
               /\ logged' = "Message sent successfully"
            \/ /\ logged' = "Error sending message"
               /\ UNCHANGED <<feed, messages>>
    /\ UNCHANGED <<now, authUser, hookUser, mounted, user, receiver, isSelfChat,
                   subs, liveMax>>
    /\ UNCHANGED aside

\* variant of OnSend: the record takes the place of the latest record of the feed
OnSendOverwriting(text, createdAt) ==
    /\ mounted /\ SignedIn
    /\ IF ~SendReady(user, receiver)
       THEN /\ logged' = "Receiver or user not defined"
            /\ UNCHANGED feed
       ELSE \/ /\ Len(feed) < MaxFeed
               /\ feed' = IF feed = <<>> THEN <<NewDoc(text, createdAt)>>
                          ELSE [feed EXCEPT ![Len(feed)] =
                                   [NewDoc(text, createdAt) EXCEPT !.id = Len(feed)]]
               /\ logged' = "Message sent successfully"
            \/ /\ logged' = "Error sending message"
               /\ UNCHANGED feed
    /\ UNCHANGED <<now, authUser, hookUser, mounted, user, receiver, isSelfChat,
                   messages, subs, liveMax>>
    /\ UNCHANGED aside

\* variant of OnSend: a rejected write is logged and the text is sent again
OnSendRetrying(text, createdAt) ==
    /\ mounted /\ SignedIn
    /\ IF ~SendReady(user, receiver)
       THEN /\ logged' = "Receiver or user not defined"
            /\ UNCHANGED feed
       ELSE \/ /\ Len(feed) < MaxFeed
               /\ feed' = Append(feed, NewDoc(text, createdAt))
               /\ logged' = "Message sent successfully"
            \/ /\ Len(feed) < MaxFeed
               /\ feed' = Append(feed, NewDoc(text, createdAt))
               /\ logged' = "Error sending message"
    /\ UNCHANGED <<now, authUser, hookUser, mounted, user, receiver, isSelfChat,
                   messages, subs, liveMax>>
    /\ UNCHANGED aside

\* the body of onSend(messages) with messages[0] = {text, createdAt, user}
OnSend(text, createdAt) ==
    /\ mounted /\ SignedIn
    /\ IF ~SendReady(user, receiver)
       THEN /\ logged' = "Receiver or user not defined"
            /\ UNCHANGED feed
       ELSE \/ /\ Len(feed) < MaxFeed
               /\ feed' = Append(feed, NewDoc(text, createdAt))
               /\ logged' = "Message sent successfully"
            \/ /\ logged' = "Error sending message"
               /\ UNCHANGED feed
    /\ UNCHANGED <<now, authUser, hookUser, mounted, user, receiver, isSelfChat,
                   messages, subs, liveMax>>
    /\ UNCHANGED aside

\* the characters String.prototype.trim() removes
Whitespace == {" "}

\* props.text.trim(): the text from its first to its last non-blank character
Trim(s) ==
    LET kept == {i \in 1..Len(s) : s[i] \notin Whitespace}
    IN  IF kept = {} THEN <<>>
        ELSE LET first == CHOOSE i \in kept : \A j \in kept : i <= j
                 last == CHOOSE i \in kept : \A j \in kept : j <= i
             IN  [k \in 1..(last - first + 1) |-> s[first + k - 1]]

\* the truthiness of props.text: a string is falsy only when it is empty
Truthy(s) == Len(s) > 0

\* the onPress of renderSend: if (props.text && props.onSend)
\* props.onSend({text: props.text.trim()}, true); GiftedChat hands the message,
\* with its user prop, to onSend
PressSend(input, createdAt) ==
    /\ mounted /\ SignedIn
    /\ IF Truthy(input)
       THEN OnSend(Trim(input), createdAt)
       ELSE /\ logged' = "none"
            /\ UNCHANGED <<feed, now, authUser, hookUser, mounted, user, receiver,
                           isSelfChat, messages, subs, liveMax>>
            /\ UNCHANGED aside

\* the onSend of another device, signed in as p with receiver r selected, whose
\* clock reads t: all this device sees of it is the record appended to the feed
PeerSend(p, r, text, t) ==
    /\ Len(feed) < MaxFeed
    /\ feed' = Append(feed, [id |-> Len(feed) + 1, user |-> p, receiver |-> r,
                             createdAt |-> t, text |-> text])
    /\ logged' = "none"
    /\ UNCHANGED <<now, authUser, hookUser, mounted, user, receiver, isSelfChat,
                   messages, subs, liveMax>>
    /\ UNCHANGED aside

\* variant of Snapshot: the callback merges what it computes into the old view
SnapshotMerging ==
    /\ logged' = "none"
    /\ UNCHANGED <<feed, now, authUser, hookUser, mounted, user, receiver, isSelfChat,
                   liveMax>>
    /\ UNCHANGED aside
    /\ \E s \in subs :
          /\ s.seen < Len(feed)
          /\ subs' = (subs \ {s}) \cup {[s EXCEPT !.seen = Len(feed)]}
          /\ LET new == FilterSort(SnapshotDocs(feed), s.user, s.receiver, now)
                 kept(m) == m.id \notin Ids(new)
             IN  messages' = new \o SelectSeq(messages, kept)

\* the store delivers the feed to a live listener that has not seen it yet: the
\* callback replaces messages with what it computes for the pair it closed over
Snapshot ==
    /\ logged' = "none"
    /\ UNCHANGED <<feed, now, authUser, hookUser, mounted, user, receiver, isSelfChat,
                   liveMax>>
    /\ UNCHANGED aside
    /\ \E s \in subs :
          /\ s.seen < Len(feed)
          /\ subs' = (subs \ {s}) \cup {[s EXCEPT !.seen = Len(feed)]}
          /\ messages' = FilterSort(SnapshotDocs(feed), s.user, s.receiver, now)

\* variant of SnapshotError: the error callback empties the view and subscribes again
SnapshotErrorResetting ==
    /\ subs # {}
    /\ logged' = "Error fetching messages"
    /\ messages' = <<>>
    /\ subs' = ListenerSubscribe(ListenerCleanup(subs), user, receiver)
    /\ UNCHANGED <<feed, now, authUser, hookUser, mounted, user, receiver, isSelfChat,
                   liveMax>>
    /\ UNCHANGED aside

\* the error callback of onSnapshot: console.error only
SnapshotError ==
    /\ subs # {}
    /\ logged' = "Error fetching messages"
    /\ UNCHANGED <<feed, now, authUser, hookUser, mounted, user, receiver, isSelfChat,
                   messages, subs, liveMax>>
    /\ UNCHANGED aside

-----------------------------------------------------------------------------
(* The settings screen: the avatar of the signed-in principal *)

\* the Settings tab is pressed for the first time: SettingsScreen mounts, its
\* mount effects set userEmail (or alert) and call fetchAvatar, whose
\* auth.currentUser.email throws, and is caught, when nobody is signed in
OpenSettings ==
    /\ shown = "tabs" /\ userEmail = Null
    /\ IF authUser # Null
       THEN /\ userEmail' = authUser
            /\ fetching' = TRUE
            /\ logged' = "none"
       ELSE /\ userEmail' = ""
            /\ fetching' = FALSE
            /\ logged' = "Error getting document"
    /\ UNCHANGED <<chatVars, authUser, hookUser, shown, alert, signUp, themeVars, fetched,
                   avatarDocs, docRef, picking>>

\* query(collection(db, "avatars"), where("email", "==", email)): the positions
\* of the records getDocs returns
Matching(docs, email) == {i \in 1..Len(docs) : docs[i].email = email}

\* querySnapshot.forEach(docItem => setDocRef(doc(db, "avatars", docItem.id))):
\* the last record of the result is the one the state keeps
LastOf(found) == CHOOSE i \in found : \A j \in found : j <= i

\* getDocs of fetchAvatar resolves, or rejects and is logged
FetchAvatarDone ==
    /\ fetching
    /\ fetching' = FALSE
    /\ \/ LET found == Matching(avatarDocs, userEmail)
          IN  IF found # {}
              THEN docRef' = LastOf(found) /\ logged' = "none"
              ELSE UNCHANGED docRef /\ logged' = "No such document!"
       \/ UNCHANGED docRef /\ logged' = "Error getting document"
    /\ UNCHANGED <<chatVars, authUser, hookUser, shown, alert, signUp, themeVars, fetched,
                   avatarDocs, userEmail, picking>>

\* the upload button is pressed: pickImage starts with the docRef and the
\* userEmail of the render it was created in; the permission is denied or the
\* picker cancelled, or an image is chosen and the upload is in flight
PickImage ==
    /\ userEmail # Null /\ picking = Idle
    /\ \/ picking' = [docRef |-> docRef, email |-> userEmail] /\ logged' = "result is"
       \/ UNCHANGED picking /\ logged' = "Permission Required"
    /\ UNCHANGED <<chatVars, authUser, hookUser, shown, alert, signUp, themeVars, fetched,
                   avatarDocs, userEmail, docRef, fetching>>

\* variant of UploadDone: a rejected step is reported and the upload stays in flight
UploadDoneStuck ==
    /\ picking # Idle
    /\ LET record == [email |-> picking.email, avatar |-> now]
       IN  \/ /\ picking.docRef = NoRef
              /\ Len(avatarDocs) < MaxAvatarDocs
              /\ avatarDocs' = Append(avatarDocs, record)
              /\ picking' = Idle
              /\ logged' = "Avatar Uploaded"
           \/ /\ picking.docRef # NoRef
              /\ avatarDocs' = [avatarDocs EXCEPT ![picking.docRef] = record]
              /\ picking' = Idle
              /\ logged' = "Avatar Updated"
           \/ /\ UNCHANGED <<avatarDocs, picking>>
              /\ logged' = "Upload Failed"
    /\ UNCHANGED <<chatVars, authUser, hookUser, shown, alert, signUp, themeVars, fetched,
                   userEmail, docRef, fetching>>

\* uploadImage has resolved with the url of profile_pics/<time>.jpg: the
\* record is created when the docRef pickImage closed over is null (addDoc),
\* and replaced where docRef points otherwise (setDoc); or a step rejects
UploadDone ==
    /\ picking # Idle
    /\ picking' = Idle
    /\ LET record == [email |-> picking.email, avatar |-> now]
       IN  \/ /\ picking.docRef = NoRef
              /\ Len(avatarDocs) < MaxAvatarDocs
              /\ avatarDocs' = Append(avatarDocs, record)
              /\ logged' = "Avatar Uploaded"
           \/ /\ picking.docRef # NoRef
              /\ avatarDocs' = [avatarDocs EXCEPT ![picking.docRef] = record]
              /\ logged' = "Avatar Updated"
           \/ /\ UNCHANGED avatarDocs
              /\ logged' = "Upload Failed"
    /\ UNCHANGED <<chatVars, authUser, hookUser, shown, alert, signUp, themeVars, fetched,
                   userEmail, docRef, fetching>>

\* the pickImage of another device, signed in as p, with no record of p yet
PeerUpload(p) ==
    /\ Len(avatarDocs) < MaxAvatarDocs
    /\ Matching(avatarDocs, p) = {}
    /\ avatarDocs' = Append(avatarDocs, [email |-> p, avatar |-> now])
    /\ logged' = "none"
    /\ UNCHANGED <<chatVars, authUser, hookUser, shown, alert, signUp, themeVars, fetched,
                   userEmail, docRef, fetching, picking>>

-----------------------------------------------------------------------------
(* The focus effects of the buddy list and of the chat screen *)

\* the emails of the records of the collection, in order
Emails(docs) == [i \in 1..Len(docs) |-> docs[i].email]

\* fetchedUsers.find(own) first when there is one, then fetchedUsers.filter(others)
OwnFirst(emails, own) ==
    LET isOwn(e) == e = own
        isOther(e) == e # own
    IN  (IF SelectSeq(emails, isOwn) # <<>> THEN <<own>> ELSE <<>>) \o SelectSeq(emails, isOther)

\* the buddy list comes into focus and fetchUsers runs: getDocs rejects, or it
\* resolves and the rows are set; auth.currentUser.email throws inside the
\* try, for the first record looked at, when nobody is signed in
FetchUsers ==
    /\ shown = "tabs"
    /\ \/ /\ logged' = "Error fetching users"
          /\ UNCHANGED users
       \/ IF authUser = Null /\ avatarDocs # <<>>
          THEN logged' = "Error fetching users" /\ UNCHANGED users
          ELSE users' = OwnFirst(Emails(avatarDocs), authUser) /\ logged' = "none"
    /\ UNCHANGED <<chatVars, authUser, hookUser, shown, alert, signUp, themeVars, avatarVars,
                   avatar>>

\* the chat screen comes into focus and its fetchAvatar runs: getDocs rejects,
\* or it resolves and the avatar of the last matching record is set;
\* auth.currentUser.email throws inside the try when nobody is signed in
FetchChatAvatar ==
    /\ mounted
    /\ \/ /\ logged' = "Error fetching avatar"
          /\ UNCHANGED avatar
       \/ IF authUser = Null
          THEN logged' = "Error fetching avatar" /\ UNCHANGED avatar
          ELSE LET found == Matching(avatarDocs, authUser)
               IN  /\ avatar' = IF found # {} THEN avatarDocs[LastOf(found)].avatar ELSE avatar
                   /\ logged' = "none"
    /\ UNCHANGED <<chatVars, authUser, hookUser, shown, alert, signUp, themeVars, avatarVars,
                   users>>

-----------------------------------------------------------------------------
(* The theme provider *)

\* variant of ParseTheme: the comparison is with 'light'
ParseLight(savedTheme) == savedTheme = "light"

\* const isDarkMode = savedTheme === 'dark'
ParseTheme(savedTheme) == savedTheme = "dark"

\* newIsDark ? 'dark' : 'light'
ThemeString(dark) == IF dark THEN "dark" ELSE "light"

\* the continuation of loadTheme: getItem resolves with the stored value, with
\* null when nothing is stored, or rejects and is logged
ThemeLoaded ==
    /\ themeLoad # "done"
    /\ themeLoad' = "done"
    /\ IF themeLoad = "error"
       THEN UNCHANGED isDark /\ logged' = "Error loading theme" /\ storageFailed' = TRUE
       ELSE /\ isDark' = IF themeLoad # Null THEN ParseTheme(themeLoad) ELSE isDark
            /\ logged' = "none"
            /\ UNCHANGED storageFailed
    /\ UNCHANGED <<chatVars, authUser, hookUser, shown, alert, signUp, avatarVars, fetched,
                   themeStored, lastToggle, startToggle, sessions, reads>>

\* toggleTheme, from the switch of the settings screen: the state is flipped,
\* then setItem resolves, or rejects and is logged
ToggleTheme ==
    /\ userEmail # Null
    /\ LET newIsDark == ~isDark
       IN  /\ isDark' = newIsDark
           /\ \/ /\ themeStored' = ThemeString(newIsDark)
                 /\ lastToggle' = [dark |-> newIsDark, saved |-> TRUE, made |-> TRUE]
                 /\ logged' = "none"
                 /\ UNCHANGED storageFailed
              \/ /\ UNCHANGED themeStored
                 /\ lastToggle' = [dark |-> newIsDark, saved |-> FALSE, made |-> TRUE]
                 /\ logged' = "Error saving theme"
                 /\ storageFailed' = TRUE
    /\ UNCHANGED <<chatVars, authUser, hookUser, shown, alert, signUp, avatarVars, fetched,
                   themeLoad, startToggle, sessions, reads>>

\* the app is closed and started again: every component state is initial, the
\* mount effect of ThemeProvider calls loadTheme, whose getItem will deliver
\* what is stored now or fail; the stores and the signed-in account persist
Restart ==
    /\ sessions < MaxSessions
    /\ sessions' = sessions + 1
    /\ reads' = reads + 1
    /\ storageFailed' = FALSE
    /\ \/ themeLoad' = themeStored
       \/ themeLoad' = "error"
    /\ isDark' = FALSE
    /\ startToggle' = lastToggle
    /\ hookUser' = Null
    /\ shown' = "auth"
    /\ alert' = "none"
    /\ signUp' = NoSignUp
    /\ mounted' = FALSE
    /\ user' = Null
    /\ receiver' = Null
    /\ isSelfChat' = FALSE
    /\ messages' = <<>>
    /\ subs' = {}
    /\ liveMax' = 0
    /\ userEmail' = Null
    /\ docRef' = NoRef
    /\ fetching' = FALSE
    /\ picking' = Idle
    /\ users' = <<>>
    /\ avatar' = NoAvatar
    /\ logged' = "none"
    /\ UNCHANGED <<feed, now, authUser, avatarDocs, themeStored, lastToggle>>

\* what GiftedChat passes as messages[0].createdAt: nothing, or new Date()
SendTimes == {NoDate, now}

\* what the clock of another device may read: this one's, or one ahead
PeerTimes == {t \in Time : t = now \/ t = now + 1}

Next ==
    \/ Tick
    \/ \E p \in Accounts : Login(p)
    \/ AuthStateChanged
    \/ OpenChatTab
    \/ \E r \in Principals : SelectBuddy(r)
    \/ SignOut
    \/ \E input \in TypedInputs, createdAt \in SendTimes : PressSend(input, createdAt)
    \/ \E p \in Peers, r \in PeerReceivers, text \in Texts, t \in PeerTimes :
          PeerSend(p, r, text, t)
    \/ Snapshot
    \/ SnapshotError

Spec == Init /\ [][Next]_vars

\* the store delivers a pending snapshot to a live listener
FairSpec == Spec /\ WF_vars(Snapshot)

\* one session after another of the chat screen: sign-in, selections from
\* every row of the buddy list, sends of this and of the other devices to
\* every principal, sign-out
SessionNext ==
    \/ \E p \in Accounts : Login(p)
    \/ AuthStateChanged
    \/ OpenChatTab
    \/ \E r \in Buddies : SelectBuddy(r)
    \/ SignOut
    \/ \E input \in TypedInputs, createdAt \in SendTimes : PressSend(input, createdAt)
    \/ \E p \in Peers, r \in Principals, text \in Texts : PeerSend(p, r, text, now)
    \/ Snapshot

\* the identity provider notifies the hook of every change of the signed-in user
SessionSpec == Init /\ [][SessionNext]_vars /\ WF_vars(AuthStateChanged)

\* the first start of the app on a store without messages: the getItem of
\* loadTheme is pending and will reject
FailureInit ==
    /\ feed = <<>>
    /\ now = 0
    /\ authUser = Null
    /\ hookUser = Null
    /\ mounted = FALSE
    /\ user = Null
    /\ receiver = Null
    /\ isSelfChat = FALSE
    /\ messages = <<>>
    /\ subs = {}
    /\ liveMax = 0
    /\ logged = "none"
    /\ shown = "auth"
    /\ alert = "none"
    /\ signUp = NoSignUp
    /\ themeStored = Null
    /\ isDark = FALSE
    /\ themeLoad = "error"
    /\ lastToggle = NoToggle
    /\ startToggle = NoToggle
    /\ sessions = 1
    /\ reads = 1
    /\ storageFailed = FALSE
    /\ avatarDocs = <<>>
    /\ userEmail = Null
    /\ docRef = NoRef
    /\ fetching = FALSE
    /\ picking = Idle
    /\ users = <<>>
    /\ avatar = NoAvatar

\* every operation whose failure the code catches, with the success of each: a
\* principal signs in or up, opens the chat with a buddy and the settings tab,
\* sends, uploads an avatar, toggles the theme and signs out, while the
\* subscription, the focus effects and the load of the theme run
FailureNext ==
    \/ \E p \in Accounts : Login(p)
    \/ HandleSignUp("alice", "p", "p")
    \/ AuthStateChanged
    \/ SelectBuddy("bob")
    \/ SignOut
    \/ PressSend(Hi, now)
    \/ SnapshotError
    \/ FetchUsers
    \/ FetchChatAvatar
    \/ SignedIn /\ OpenSettings
    \/ PickImage
    \/ UploadDone
    \/ ThemeLoaded
    \/ ToggleTheme

FailureSpec == FailureInit /\ [][FailureNext]_vars

\* the composer of the chat screen with every input, blanks included
ComposerNext ==
    \/ Tick
    \/ \E p \in Accounts : Login(p)
    \/ AuthStateChanged
    \/ \E r \in Principals : SelectBuddy(r)
    \/ \E input \in Inputs, createdAt \in SendTimes : PressSend(input, createdAt)
    \/ Snapshot

ComposerSpec == Init /\ [][ComposerNext]_vars

\* the settings screen and the avatars collection, with the sign-in, the
\* sign-out and the clock around them
AvatarNext ==
    \/ Tick
    \/ \E p \in Accounts : Login(p)
    \/ AuthStateChanged
    \/ OpenChatTab
    \/ SignOut
    \/ OpenSettings
    \/ FetchAvatarDone
    \/ PickImage
    \/ UploadDone
    \/ \E p \in Peers : PeerUpload(p)

AvatarSpec == Init /\ [][AvatarNext]_vars

\* the theme provider over restarts of the app, with the sign-in and the
\* settings screen that holds the switch
ThemeNext ==
    \/ \E p \in Accounts : Login(p)
    \/ AuthStateChanged
    \/ OpenSettings
    \/ ThemeLoaded
    \/ ToggleTheme
    \/ Restart

ThemeSpec == Init /\ [][ThemeNext]_vars

\* the auth stack (SignUp, Login) and the way into and out of the tabs
SignUpNext ==
    \/ \E email \in SignUpEmails, password \in Passwords, confirmPassword \in Passwords :
          HandleSignUp(email, password, confirmPassword)
    \/ \E p \in Accounts : Login(p)
    \/ AuthStateChanged
    \/ OpenChatTab
    \/ SignOut

SignUpSpec == Init /\ [][SignUpNext]_vars

-----------------------------------------------------------------------------
(* Vocabulary of the claims *)

\* the unordered {sender, receiver} pair of a message
PairOf(m) == {m.user, m.receiver}

\* the screen is mounted with both identities set
Viewing == mounted /\ user # Null /\ receiver # Null

\* the screen shows the pair of record i, from its sender's side
ShowingPairOf(i) ==
    i \in 1..Len(feed) /\ Viewing /\ user = feed[i].user /\ receiver = feed[i].receiver

\* a record of the feed that this device's onSend appended
OwnRecord(i) == i \in 1..Len(feed) /\ feed[i].user \in Accounts /\ feed[i] # LegacyDoc

-----------------------------------------------------------------------------
\* C1: in every reachable state of the chat screen, every message of the
\* Conversation View has its unordered {sender, receiver} pair equal to the
\* selected {user, receiver} pair -- also between a change of receiver and the
\* first snapshot of the new listener.  (Violated: SelectBuddy leaves messages
\* as the previous pair's listener computed it.)
C1_ViewIsOfSelectedPair ==
    mounted => \A k \in 1..Len(messages) : PairOf(messages[k]) = {user, receiver}

-----------------------------------------------------------------------------
\* C2: a record that onSend appended while (A,B) was the active pair is
\* eventually in the view of the screen for as long as it shows (A,B) (fair
\* snapshot delivery), and the view computed for any other pair (A,C), C # B,
\* never contains it.  (A record stays in the feed, so "the screen never shows
\* (A,B) for ever without the record" says the same as the leads-to.)
C2_SentReachesItsPairOnly ==
    /\ \A i \in 1..MaxFeed :
          []<>(~(OwnRecord(i) /\ ShowingPairOf(i)) \/ i \in Ids(messages))
    /\ [](\A i \in 1..Len(feed) : \A c \in Principals \ {feed[i].receiver} :
             feed[i].id \notin Ids(FilterSort(SnapshotDocs(feed), feed[i].user, c, now)))

\* an own record of the selected pair has reached the view
C2_Witness ==
    \E i \in 1..Len(feed) :
        /\ OwnRecord(i) /\ ShowingPairOf(i)
        /\ i \in Ids(messages)
        /\ \E c \in Principals : c # receiver

-----------------------------------------------------------------------------
\* C3: a chat screen never has more than one live listener, not even inside an
\* effect flush (the old one is closed before the new one is opened), and has
\* exactly one whenever it is mounted with both identities set.
C3_OneLiveSubscription ==
    /\ Cardinality(subs) <= 1
    /\ liveMax <= 1
    /\ Viewing => Cardinality(subs) = 1

\* after a change of pair: the view still holds what the old listener computed
\* and the new listener has not delivered yet
C3_Witness ==
    /\ Viewing
    /\ \E s \in subs : s.seen = NotYet /\ s.receiver = receiver
    /\ \E k \in 1..Len(messages) : PairOf(messages[k]) # {user, receiver}
    /\ liveMax = 1

-----------------------------------------------------------------------------
\* C4: after a change of pair or a teardown no callback of the old listener
\* writes the view: every live listener closes over the current pair, every
\* update of a mounted screen's view is the filter+sort for the current pair,
\* and a torn down screen's view is only ever emptied.
C4_NoStaleWriter ==
    /\ [](\A s \in subs : mounted /\ s.user = user /\ s.receiver = receiver)
    /\ [][messages' # messages =>
             IF mounted' THEN messages' = FilterSort(SnapshotDocs(feed), user, receiver, now)
             ELSE messages' = <<>>]_vars

\* the self-chat listener has written the view after (alice, bob) was active:
\* the feed holds a record this device sent to another principal
C4_Witness ==
    /\ Viewing /\ receiver = user
    /\ \E s \in subs : s.seen = Len(feed)
    /\ messages # <<>>
    /\ \A k \in 1..Len(messages) : PairOf(messages[k]) = {user}
    /\ \E i \in 1..Len(feed) : OwnRecord(i) /\ feed[i].receiver # user

-----------------------------------------------------------------------------
\* C5: while receiver or user is not set, a send attempts no store write
\* (neither the success nor the failure line of addDoc is logged, and the feed
\* gains no record of this device), and the step that logs the precondition
\* failure leaves feed and view unchanged.
C5_SendWithoutPairWritesNothing ==
    [][(receiver = Null \/ user = Null) =>
          /\ logged' \notin {"Message sent successfully", "Error sending message"}
          /\ \A i \in 1..Len(feed') : i > Len(feed) => feed'[i].user \notin Accounts
          /\ logged' = "Receiver or user not defined" =>
                 feed' = feed /\ messages' = messages]_vars

\* a send was rejected by the precondition
C5_Witness ==
    mounted /\ receiver = Null /\ logged = "Receiver or user not defined"

-----------------------------------------------------------------------------
\* C6: in every Conversation View produced by a snapshot, a message with a
\* later (normalized) createdAt comes before one with an earlier createdAt.
C6_NewestFirst ==
    \A j \in 1..Len(messages) : \A k \in 1..Len(messages) :
        messages[j].createdAt > messages[k].createdAt => j < k

\* a view of two messages with different instants
C6_Witness ==
    /\ Len(messages) = 2
    /\ messages[1].createdAt > messages[2].createdAt
    /\ \E s \in subs : s.seen = Len(feed)

-----------------------------------------------------------------------------
\* C7: in self-chat (receiver = user = A) the Conversation View holds only
\* messages with sender = A and receiver = A.  (Violated through C1: after a
\* switch from (A,B) to (A,A) the view still holds the (A,B) messages.)
C7_SelfChatViewHoldsOnlyNotes ==
    (Viewing /\ receiver = user) =>
        \A k \in 1..Len(messages) : messages[k].user = user /\ messages[k].receiver = user

-----------------------------------------------------------------------------
\* C8: a message sent in self-chat (sender = receiver = A) is in no
\* Conversation View of any other pair.  (Violated through C1: after a switch
\* from (A,A) to (A,B) the view of (A,B) still holds A's notes.)
C8_NotesOnlyInOwnNotesView ==
    \A k \in 1..Len(messages) :
        messages[k].user = messages[k].receiver =>
            user = messages[k].user /\ receiver = messages[k].user

-----------------------------------------------------------------------------
\* record i was sent by another device's principal A to this device's
\* principal B, and this device shows the pair (B, A)
IncomingShown(i) ==
    /\ i \in 1..Len(feed) /\ feed[i].user \in Peers
    /\ Viewing /\ user = feed[i].receiver /\ receiver = feed[i].user

\* the view holds record i exactly once, with its text and sender, before
\* every entry with an earlier createdAt
ShownOnceInPlace(i) ==
    \E k \in 1..Len(messages) :
        /\ messages[k].id = i
        /\ \A j \in 1..Len(messages) : messages[j].id = i => j = k
        /\ messages[k].text = feed[i].text
        /\ messages[k].user = feed[i].user
        /\ \A j \in 1..Len(messages) :
              messages[j].createdAt < messages[k].createdAt => k < j

\* C9: when A sends one message with text t to B while B's device shows the
\* pair (B,A), B's view eventually (fair snapshot delivery) holds it, and
\* whenever it holds it, it holds exactly one entry for it, with text t and
\* sender A, placed before every entry with an earlier createdAt.
C9_IncomingShownOnceInPlace ==
    /\ \A i \in 1..MaxFeed : []<>(~IncomingShown(i) \/ i \in Ids(messages))
    /\ [](\A i \in 1..Len(feed) :
             (IncomingShown(i) /\ i \in Ids(messages)) => ShownOnceInPlace(i))

\* bob's message is on top of an earlier entry of the conversation
C9_Witness ==
    \E i \in 1..Len(feed) :
        /\ IncomingShown(i)
        /\ Len(messages) = 2
        /\ messages[1].id = i
        /\ messages[2].createdAt < messages[1].createdAt

-----------------------------------------------------------------------------
\* every record of the pair {u, r} in the feed has a convertible timestamp
AllConvertible(f, u, r) ==
    \A i \in 1..Len(f) : PairOf(f[i]) = {u, r} => f[i].createdAt # NoDate

\* C10 as claimed: the view a snapshot produces is what the filter+sort step
\* yields for that snapshot and pair whenever it is run, whatever the records.
\* (Violated: a record without a convertible timestamp takes the instant of
\* the run.)
C10_PureForEverySnapshot ==
    [][(messages' # messages /\ mounted') =>
          \A t \in Time : messages' = FilterSort(SnapshotDocs(feed), user, receiver, t)]_vars

\* C10 as amended: the step is a function of the snapshot, the pair and the
\* instant at which it runs; run at the same instant, or on a snapshot whose
\* records of the pair all have a convertible timestamp, it yields the same
\* ordered sequence again.
C10_PureUpToTheInstant ==
    [][(messages' # messages /\ mounted') =>
          \A t \in Time :
              (t = now \/ AllConvertible(feed, user, receiver)) =>
                  messages' = FilterSort(SnapshotDocs(feed), user, receiver, t)]_vars

\* a snapshot holding a record without a convertible timestamp has produced a
\* view of a pair whose records all have one, and the clock has moved on since
C10_Witness ==
    /\ Viewing
    /\ \E s \in subs : s.seen = Len(feed)
    /\ messages # <<>>
    /\ AllConvertible(feed, user, receiver)
    /\ \E i \in 1..Len(feed) : feed[i].createdAt = NoDate
    /\ \E k \in 1..Len(messages) : messages[k].createdAt < now

-----------------------------------------------------------------------------
\* C11: no record with empty text is ever appended to the store: a press of
\* send with an empty or blank-only composer writes nothing.  (Violated: the
\* guard of renderSend tests props.text before trim(), a blank-only text is
\* truthy, and onSend appends the record with text "".)
C11_NoEmptyTextRecord ==
    \A i \in 1..Len(feed) : feed[i].text # <<>>

-----------------------------------------------------------------------------
\* the text and the createdAt GiftedChat may hand to onSend as messages[0]
SubmittedTexts == {Trim(input) : input \in {i \in Inputs : Truthy(i)}}

\* C12: a successful send appends exactly one record to the store; its sender
\* is the authenticated principal, its receiver the receiver selected when
\* the send was made, its text the submitted text, and its timestamp the
\* supplied one, or now when none was supplied; the records before it stay.
C12_SendAppendsOneRecord ==
    [][logged' = "Message sent successfully" =>
          \E text \in SubmittedTexts :
              feed' = Append(feed, [id |-> Len(feed) + 1,
                                    user |-> authUser,
                                    receiver |-> receiver,
                                    createdAt |-> now,
                                    text |-> text])]_vars

\* a send to another principal has just succeeded, with a typed text
C12_Witness ==
    /\ logged = "Message sent successfully"
    /\ Len(feed) = 2
    /\ feed[2].user = authUser /\ feed[2].receiver = receiver
    /\ receiver # user
    /\ feed[2].text = Hi
    /\ feed[2].createdAt = now

-----------------------------------------------------------------------------
\* C13: after any sequence of avatar uploads by one principal the avatars
\* collection holds at most one record for that principal's email.
\* (Violated: pickImage calls addDoc whenever the docRef it closed over is
\* null, and nothing sets docRef after the addDoc, nor before fetchAvatar
\* has resolved.)
C13_OneAvatarRecordPerEmail ==
    \A p \in Principals : Cardinality(Matching(avatarDocs, p)) <= 1

-----------------------------------------------------------------------------
\* the step in which loadTheme's getItem is answered
LoadAnswered == themeLoad # "done" /\ themeLoad' = "done"

\* the value under the theme key is only ever "dark" or "light", and getItem
\* is called once per start of the app
ThemeKeyDiscipline ==
    /\ themeStored \in {Null, "dark", "light"}
    /\ reads = sessions

-----------------------------------------------------------------------------
\* C15: for every input (email, password, confirmPassword), handleSignUp
\* issues the account-creation request only if password equals
\* confirmPassword; otherwise it alerts and creates no account.  (Violated:
\* the check requires all three fields to be filled in, so differing
\* passwords pass it when confirmPassword, or the email, is empty.)
C15_RequestOnlyWhenPasswordsMatch ==
    signUp.requested => signUp.password = signUp.confirmPassword

-----------------------------------------------------------------------------
\* the latest step was a sign-in attempt that the identity provider rejected
LoginFailed == logged \in LoginFailures

\* C16: a failed sign-in has the same user-visible outcome whatever its
\* cause: the alert is the one generic text for every cause, the user stays
\* unauthenticated (the auth stack stays shown), and nothing is in flight
\* afterwards that could sign the user in without a new press.
C16_FailedLoginLooksTheSame ==
    /\ [](LoginFailed =>
             /\ alert = "Login Error: Please check the credentials"
             /\ authUser = Null /\ hookUser = Null /\ shown = "auth"
             /\ ~ENABLED AuthStateChanged)
    /\ [][LoginFailed' => (authUser' = authUser /\ hookUser' = hookUser)]_vars

\* a sign-in was rejected for a wrong password, after an earlier session of
\* the same account on this device
C16_Witness ==
    /\ logged = "auth/wrong-password"
    /\ alert = "Login Error: Please check the credentials"
    /\ authUser = Null
    /\ \E i \in 1..Len(feed) : OwnRecord(i)

-----------------------------------------------------------------------------
\* C17: the navigation follows the authentication: a notification leaves the
\* hook's user equal to the notified identity (or null); the tabs are shown
\* exactly when the hook's user is non-null, the SignUp/Login stack
\* otherwise; the chat screen is mounted only under the tabs, it is mounted
\* only while a principal is authenticated, and its user is that principal.
C17_NavigationFollowsAuth ==
    /\ [][hookUser' # hookUser => hookUser' = authUser]_vars
    /\ [](shown = (IF hookUser # Null THEN "tabs" ELSE "auth"))
    /\ [](mounted => (shown = "tabs" /\ hookUser # Null /\ user = hookUser))
    /\ [][(~mounted /\ mounted') => (authUser # Null /\ user' = authUser)]_vars

\* the sign-out of a session in which a message was sent has been notified:
\* the auth stack is shown again and the chat screen is gone
C17_Witness ==
    /\ logged = "User details"
    /\ hookUser = Null /\ authUser = Null
    /\ shown = "auth" /\ ~mounted
    /\ \E i \in 1..Len(feed) : OwnRecord(i)

-----------------------------------------------------------------------------
\* the console lines with which onSend ends
SendLines ==
    {"Message sent successfully", "Error sending message", "Receiver or user not defined"}

\* the step is the snapshot callback of a live listener of the screen
SnapshotDelivered ==
    /\ feed' = feed
    /\ \E s \in subs :
          s.seen < Len(feed) /\ subs' = (subs \ {s}) \cup {[s EXCEPT !.seen = Len(feed)]}

\* C18: onSend never modifies the Conversation View, whether the write
\* succeeds, fails or is not attempted; the view of a mounted screen changes
\* only in a step that is the snapshot callback of its listener.
C18_SendLeavesViewAlone ==
    /\ [][logged' \in SendLines => messages' = messages]_vars
    /\ [][(messages' # messages /\ mounted') => SnapshotDelivered]_vars

\* a send has just succeeded for the pair on screen and the view does not
\* hold the record yet
C18_Witness ==
    /\ logged = "Message sent successfully"
    /\ ShowingPairOf(Len(feed))
    /\ Len(feed) \notin Ids(messages)
    /\ \E s \in subs : s.seen < Len(feed)

-----------------------------------------------------------------------------
\* the ids of the records of the pair {u, r} in the feed f
PairIds(f, u, r) == {f[i].id : i \in {j \in 1..Len(f) : PairOf(f[j]) = {u, r}}}

\* C19: a listener receives the snapshots in the order of the store (its
\* seen mark only grows), and the callback replaces the view wholesale: right
\* after a snapshot S is processed for the pair P the view is
\* filter-and-sort(S, P), whatever the view was before, so it holds exactly
\* the records of P in S and nothing the old view held besides.
C19_SnapshotReplacesView ==
    /\ [][SnapshotDelivered =>
             /\ messages' = FilterSort(SnapshotDocs(feed), user, receiver, now)
             /\ Ids(messages') = PairIds(feed, user, receiver)
             /\ Len(messages') = Cardinality(PairIds(feed, user, receiver))]_vars
    /\ [][\A s \in subs : \A t \in subs' :
             (t.user = s.user /\ t.receiver = s.receiver /\ subs' # subs /\ feed' = feed
              /\ mounted /\ mounted' /\ receiver' = receiver) => t.seen > s.seen]_vars

\* the listener of (alice, carol) has processed a snapshot of a feed that
\* holds only records of (alice, bob), one of them sent from this screen: the
\* view is empty, whatever it held while bob was selected
C19_Witness ==
    /\ Viewing /\ receiver = "carol"
    /\ \E s \in subs : s.seen = Len(feed)
    /\ messages = <<>>
    /\ Len(feed) = 2
    /\ \A i \in 1..Len(feed) : PairOf(feed[i]) = {"alice", "bob"}
    /\ OwnRecord(2)

-----------------------------------------------------------------------------
\* C20: while the receiver or the current user is absent the chat screen
\* holds no subscription and its Conversation View is empty; a subscription
\* is opened only in a step after which both identities are known, and a
\* live listener always closes over two identities.
C20_NoPairNoSubscription ==
    /\ []((receiver = Null \/ user = Null) => (subs = {} /\ messages = <<>>))
    /\ [](\A s \in subs : s.user # Null /\ s.receiver # Null)
    /\ [][(subs' \ subs # {}) => (user' # Null /\ receiver' # Null)]_vars

\* the chat tab was opened before any buddy was selected: the screen is
\* mounted with its user set and no receiver, although the feed holds records
\* of that user
C20_Witness ==
    /\ mounted /\ user = "alice" /\ receiver = Null
    /\ subs = {} /\ messages = <<>>
    /\ Len(feed) = 2
    /\ \A i \in 1..Len(feed) : "alice" \in PairOf(feed[i])

-----------------------------------------------------------------------------
\* C21: when the store reports a subscription error, the Conversation View
\* stays exactly as last computed, the error is only logged (nothing else of
\* the screen or the feed changes), and the subscriber opens no subscription
\* of its own: the listeners after the step are those before it.
C21_SubscriptionErrorOnlyLogged ==
    [][logged' = "Error fetching messages" =>
          /\ messages' = messages
          /\ subs' = subs /\ liveMax' = liveMax
          /\ feed' = feed
          /\ mounted' = mounted /\ user' = user /\ receiver' = receiver
          /\ isSelfChat' = isSelfChat
          /\ authUser' = authUser /\ hookUser' = hookUser /\ shown' = shown]_vars

\* the listener of the pair on screen has reported an error after it had
\* delivered a view that holds messages
C21_Witness ==
    /\ logged = "Error fetching messages"
    /\ Viewing
    /\ messages # <<>>
    /\ \A k \in 1..Len(messages) : PairOf(messages[k]) = {user, receiver}
    /\ \E s \in subs : s.seen = Len(feed)

-----------------------------------------------------------------------------
\* C22: when the store rejects the write of a send, the failure is logged,
\* no record is added and the view is unchanged; nothing is queued for a
\* later attempt: a record of this device enters the feed only in the step
\* of a send that succeeds, so the rejected text is in the feed only after
\* the user has sent it again.
C22_RejectedWriteIsDropped ==
    /\ [][logged' = "Error sending message" =>
             /\ feed' = feed
             /\ messages' = messages
             /\ subs' = subs]_vars
    /\ [][\A i \in 1..Len(feed') :
             (i > Len(feed) /\ feed'[i].user \in Accounts) =>
                 logged' = "Message sent successfully"]_vars

\* a send to the pair on screen has just been rejected: the feed has room,
\* holds no record of this device's sends, and the view is as it was
C22_Witness ==
    /\ logged = "Error sending message"
    /\ Viewing
    /\ Len(feed) < MaxFeed
    /\ \A i \in 1..Len(feed) : ~OwnRecord(i)
    /\ \E s \in subs : s.seen = Len(feed)
    /\ messages # <<>>

-----------------------------------------------------------------------------
\* C23: a record of the pair without a convertible timestamp is not dropped
\* by the snapshot callback: the view it produces holds the record, with its
\* createdAt set to the instant at which the snapshot is processed, ahead of
\* every entry whose stored timestamp is earlier than that instant.
C23_UndatedRecordTakesTheInstant ==
    [][SnapshotDelivered =>
          \A i \in 1..Len(feed) :
              (PairOf(feed[i]) = {user, receiver} /\ feed[i].createdAt = NoDate) =>
                  \E k \in 1..Len(messages') :
                      /\ messages'[k].id = feed[i].id
                      /\ messages'[k].createdAt = now
                      /\ \A j \in 1..Len(messages') :
                            (/\ feed[messages'[j].id].createdAt # NoDate
                             /\ feed[messages'[j].id].createdAt < now) => k < j]_vars

\* the view holds the record without a timestamp, dated with the instant of
\* the snapshot, on top of a record that was stored with an earlier instant
C23_Witness ==
    /\ Viewing
    /\ \E s \in subs : s.seen = Len(feed)
    /\ Len(messages) = 2
    /\ feed[messages[1].id].createdAt = NoDate
    /\ messages[1].createdAt = now
    /\ feed[messages[2].id].createdAt # NoDate
    /\ feed[messages[2].id].createdAt < now

-----------------------------------------------------------------------------
-----------------------------------------------------------------------------
\* C25: the feed is append-only from the client's side: in every step every
\* record of the feed stays where it is with the same id, text, sender,
\* receiver and createdAt, and the ids of the feed are distinct.
C25_FeedIsAppendOnly ==
    /\ [][/\ Len(feed') >= Len(feed)
          /\ \A i \in 1..Len(feed) : feed'[i] = feed[i]]_vars
    /\ [](\A i \in 1..Len(feed) : feed[i].id = i)

\* a record this device sent is still in the feed, and in the view, after a
\* record of the other device was appended behind it
C25_Witness ==
    /\ Len(feed) = 2
    /\ OwnRecord(1)
    /\ feed[2].user \in Peers
    /\ Viewing
    /\ Ids(messages) = {1, 2}

-----------------------------------------------------------------------------
\* C27: once the startup load has been answered and no getItem or setItem of
\* this start of the app was rejected, isDark is true exactly when the value
\* stored under the theme key is "dark" -- also when a toggle was made
\* before the load was answered.  (Violated: loadTheme sets isDark from the
\* value getItem read at startup, over a toggle made while it was in flight.)
C27_ThemeAgreesWithStore ==
    (themeLoad = "done" /\ ~storageFailed) => (isDark <=> themeStored = "dark")

-----------------------------------------------------------------------------
\* C28: after a sign-out from the chat screen has succeeded, the auth-state
\* notification eventually (it is delivered) removes the main tabs, tears the
\* chat screen down and closes its listener; once the hook knows of no user
\* the auth stack is shown and no chat screen or listener is left.  (Nobody
\* can sign in before the notification, so "always eventually signed in or
\* torn down" says the same as the leads-to.)
C28_SignOutClosesSubscription ==
    /\ []<>(authUser # Null \/ (shown = "auth" /\ ~mounted /\ subs = {}))
    /\ [](hookUser = Null => (shown = "auth" /\ ~mounted /\ subs = {}))

\* signOut has resolved and the notification is still to come: the chat
\* screen is mounted with its live listener and the messages it delivered
C28_Witness ==
    /\ authUser = Null /\ hookUser # Null
    /\ shown = "tabs" /\ mounted
    /\ subs # {}
    /\ messages # <<>>

-----------------------------------------------------------------------------
\* C29: in every reachable state, also right after a change of pair, every
\* message of the Conversation View of a client authenticated as X has X as
\* its sender or its receiver: the screen's user is in the pair of every
\* message it holds, and so is the authenticated principal while there is
\* one; a message between two other principals is never in the view,
\* although every snapshot holds the whole feed.
C29_ViewHoldsOwnConversationsOnly ==
    \A k \in 1..Len(messages) :
        /\ mounted /\ user \in PairOf(messages[k])
        /\ authUser # Null => authUser \in PairOf(messages[k])

\* the feed delivered to alice's listener of (alice, bob) holds a message of
\* bob to carol; the view holds the conversation with bob
C29_Witness ==
    /\ Viewing /\ user = "alice" /\ receiver = "bob"
    /\ \E s \in subs : s.seen = Len(feed)
    /\ messages # <<>>
    /\ \E i \in 1..Len(feed) : feed[i].user = "bob" /\ feed[i].receiver = "carol"

-----------------------------------------------------------------------------
\* C30: the self-chat flag tracks the pair: after any sequence of presses on
\* rows of the buddy list, while a principal is authenticated isSelfChat is
\* true exactly when the selected receiver is that principal, it is false
\* while no receiver is selected, and a receiver, once set, is only ever
\* replaced by another non-empty receiver for as long as the screen lives.
C30_SelfChatFlagTracksPair ==
    /\ []((Viewing /\ authUser # Null) => (isSelfChat <=> receiver = authUser))
    /\ []((mounted /\ receiver = Null) => ~isSelfChat)
    /\ [][(mounted /\ mounted' /\ receiver # Null) =>
             (receiver' # Null /\ Filled(receiver'))]_vars

\* the principal's own row was pressed after another buddy's: the flag is
\* set while the view still holds the messages of the earlier selection
C30_Witness ==
    /\ Viewing /\ authUser # Null
    /\ isSelfChat /\ receiver = user
    /\ \E k \in 1..Len(messages) : PairOf(messages[k]) = {"alice", "bob"}

-----------------------------------------------------------------------------
(* C26 *)

\* what console.log or console.error prints in a catch block or an error callback
FailureLines ==
    {"Error fetching messages", "Error sending message", "Error fetching avatar",
     "Upload Failed", "Error fetching users", "Error loading theme",
     "Error saving theme", "Error logging out"} \cup LoginFailures \cup SignUpFailures

\* C26: no store or auth failure is fatal.  A step in which the subscription,
\* a write, the avatar lookup, the avatar upload, the buddy-list fetch, the load
\* or the save of the theme, a sign-in, a sign-up or a sign-out fails ends in
\* its log line only: the stores, the session, the screens, the subscription
\* and the view are as before, and every operation that could be issued before
\* the step can be issued after it (an upload after a failed upload too, while
\* the settings screen is mounted).
C26_NoFailureIsFatal ==
    [][logged' \in FailureLines =>
          /\ UNCHANGED <<feed, avatarDocs, themeStored, authUser, hookUser, shown,
                         mounted, user, receiver, subs, messages, userEmail>>
          /\ (ENABLED Login("alice")) => (ENABLED Login("alice"))'
          /\ (ENABLED HandleSignUp("alice", "p", "p")) => (ENABLED HandleSignUp("alice", "p", "p"))'
          /\ (ENABLED SelectBuddy("bob")) => (ENABLED SelectBuddy("bob"))'
          /\ (ENABLED PressSend(Hi, now)) => (ENABLED PressSend(Hi, now))'
          /\ (ENABLED SignOut) => (ENABLED SignOut)'
          /\ (ENABLED ToggleTheme) => (ENABLED ToggleTheme)'
          /\ (ENABLED FetchUsers) => (ENABLED FetchUsers)'
          /\ (ENABLED FetchChatAvatar) => (ENABLED FetchChatAvatar)'
          /\ (ENABLED PickImage \/ (logged' = "Upload Failed" /\ userEmail # Null))
                => (ENABLED PickImage)'
      ]_vars

\* an upload has just failed in a session in which a storage operation failed
\* too: the chat is open with its subscription live, and an upload, a send and
\* a sign-out can be issued
C26_Witness ==
    /\ logged = "Upload Failed"
    /\ storageFailed
    /\ mounted /\ subs # {}
    /\ ENABLED PickImage
    /\ ENABLED PressSend(Hi, now)
    /\ ENABLED SignOut

=============================================================================
